---------------------------- MODULE Spec2Model ----------------------------
(***************************************************************************)
(* Model of the Numbas packaging pipeline (bin/numbas.py): theme-chain     *)
(* resolution in run(), the virtual file table built by collectFiles,      *)
(* makeExam's injection / SCORM manifest / aggregation / minification      *)
(* passes, and the two writers compileToDir and compileToZip.              *)
(*                                                                         *)
(* Paths are sequences of segments (the string "a/b" is <<"a","b">>);      *)
(* os.path.join is concatenation.  Every path is relative to options.path, *)
(* which is taken to be the working directory (the default of run()).      *)
(* The content of the disk file at path p is the one-token text <<p>>, so  *)
(* two different files never have the same content; joining texts with     *)
(* newlines is concatenation of token sequences.                           *)
(***************************************************************************)
EXTENDS Integers, Sequences, FiniteSets, TLC

VARIABLES
    fs,          \* the disk: files, explicit directories, inherit.txt lines, listing order
    exam,        \* what Exam.fromstring yields: resources and extensions
    options,     \* the parsed command line
    pc,          \* position of the program
    themepaths,  \* options.themepaths
    ti,          \* the index i of the resolution loop (1-based)
    files,       \* the virtual file table, a dict in insertion order
    manifest,    \* hrefs of the file elements appended to the manifest
    out,         \* what the writer has produced
    wi,          \* index of the writer's loop over files.items()
    last,        \* the last decision of compileToDir's loop (history)
    err          \* the exception that ended the build, or "none"

vars == <<fs, exam, options, pc, themepaths, ti, files, manifest, out, wi, last, err>>

----------------------------------------------------------------------------
(* Bounds of the model *)

\* cap on len(options.themepaths) while the resolution loop runs
MaxChain == 6
\* longest inherit.txt enumerated by ThemeInit
MaxInherit == 2
\* modification times of source files range over 0..MaxTime
MaxTime == 2
\* modification time a previous build left on the files of the output directory
PrevTime == 1

----------------------------------------------------------------------------
(* Paths and names *)

Last(s) == s[Len(s)]
Front(s) == SubSeq(s, 1, Len(s) - 1)

join(a, b) == a \o b

IsPrefix(p, q) == Len(p) <= Len(q) /\ SubSeq(q, 1, Len(p)) = p

\* every file or directory name of the model, in the order listdir uses when
\* fs.rev is FALSE (the reverse when it is TRUE)
NameOrder ==
    << "api.js", "b.png", "base.css", "e.js", "extra.js", "imsmanifest.xml",
       "index.html", "index.html~", "numbas.js", "pic.png",
       "r1", "resources", "scripts", "scripts.js", "styles.css" >>

Rank(n) == CHOOSE k \in 1..Len(NameOrder) : NameOrder[k] = n

\* os.path.splitext(name)[1] on the names of the model
splitext(name) ==
    CASE name \in {"api.js", "e.js", "extra.js", "numbas.js",
                   "settings.js", "locale.js", "scripts.js"} -> ".js"
      [] name \in {"base.css", "styles.css"} -> ".css"
      [] name \in {"index.html"} -> ".html"
      [] name \in {"index.html~"} -> ".html~"
      [] name \in {"pic.png", "b.png"} -> ".png"
      [] name \in {"imsmanifest.xml"} -> ".xml"
      [] OTHER -> ""

ext(dst) == IF dst = <<>> THEN "" ELSE splitext(Last(dst))

\* file[-1]=='~' or file[-4:]=='.swp'
BackupName(name) == splitext(name) \in {".html~", ".swp"}

realFile(name) == ~BackupName(name)

\* cleanpath of compileToZip: drops every "." segment
RECURSIVE cleanpath(_)
cleanpath(path) ==
    IF path = <<>> THEN <<>>
    ELSE LET dirname == cleanpath(Front(path))
             basename == Last(path)
         IN  IF basename /= "." THEN join(dirname, <<basename>>) ELSE dirname

\* os.path.normpath on relative paths without "..": drops "." segments, and
\* the empty result is "."
normpath(path) ==
    LET c == SelectSeq(path, LAMBDA s : s /= ".")
    IN  IF c = <<>> THEN <<".">> ELSE c

\* to_relative_url: the segments of the normalized path, joined with "/"
to_relative_url(path) == normpath(path)

----------------------------------------------------------------------------
(* The disk *)

isfile(p) == p \in fs.disk

isdir(p) == p \in fs.dirs \/ \E q \in fs.disk : Len(q) > Len(p) /\ IsPrefix(p, q)

exists(p) == isfile(p) \/ isdir(p)

FilesIn(d) == {p \in fs.disk : Len(p) = Len(d) + 1 /\ IsPrefix(d, p)}

SubdirsOf(d) ==
    {SubSeq(q, 1, Len(d) + 1) : q \in {p \in fs.disk : Len(p) > Len(d) + 1 /\ IsPrefix(d, p)}}

\* a set of paths as the sequence listdir gives: by name, ascending or descending
RECURSIVE Listing(_)
Listing(S) ==
    IF S = {} THEN <<>>
    ELSE LET m == CHOOSE x \in S : \A y \in S :
                      IF fs.rev THEN Rank(Last(x)) >= Rank(Last(y))
                                ELSE Rank(Last(x)) <= Rank(Last(y))
         IN  <<m>> \o Listing(S \ {m})

\* os.walk(top), top-down: one record (x[0], x[2]) per directory
RECURSIVE walk(_)
RECURSIVE walkAll(_)
walk(top) ==
    << [dir |-> top, names |-> [k \in 1..Cardinality(FilesIn(top)) |-> Last(Listing(FilesIn(top))[k])]] >>
    \o walkAll(Listing(SubdirsOf(top)))
walkAll(ds) ==
    IF ds = <<>> THEN <<>> ELSE walk(ds[1]) \o walkAll(Tail(ds))

----------------------------------------------------------------------------
(* Content sources and the dict *)

\* a str: the path of a file on disk
OnDisk(p) == [mem |-> FALSE, path |-> p, text |-> <<>>]

\* an io.StringIO holding text
StringIO(t) == [mem |-> TRUE, path |-> <<>>, text |-> t]

\* isinstance(src, basestring)
isstr(src) == ~src.mem

\* open(src).read() for a path, src.read() for a StringIO
read(src) == IF isstr(src) THEN <<src.path>> ELSE src.text

keys(d) == {d[k].dst : k \in 1..Len(d)}

getitem(d, key) == d[CHOOSE k \in 1..Len(d) : d[k].dst = key].src

\* d[key] = val: an existing key keeps its place, a new key goes last
setitem(d, key, val) ==
    IF key \in keys(d)
    THEN [k \in 1..Len(d) |-> IF d[k].dst = key THEN [dst |-> key, src |-> val] ELSE d[k]]
    ELSE Append(d, [dst |-> key, src |-> val])

delitem(d, key) == SelectSeq(d, LAMBDA it : it.dst /= key)

RECURSIVE update(_, _)
update(d, u) ==
    IF u = <<>> THEN d ELSE update(setitem(d, u[1].dst, u[1].src), Tail(u))

RECURSIVE joinlines(_)
joinlines(srcs) ==
    IF srcs = <<>> THEN <<>> ELSE read(srcs[1]) \o joinlines(Tail(srcs))

----------------------------------------------------------------------------
(* collectFiles *)

\* x[0].replace(src,dst,1): every walked directory starts with src
replace(x0, src, dst) ==
    IF IsPrefix(src, x0) THEN join(dst, SubSeq(x0, Len(src) + 1, Len(x0))) ELSE x0

\* dirs.append((cwd/path, resources/name)) for each directory-valued resource
RECURSIVE resourceDirs(_)
resourceDirs(rs) ==
    IF rs = <<>> THEN <<>>
    ELSE (IF isdir(rs[1][2])
          THEN << <<rs[1][2], join(<<"resources">>, rs[1][1])>> >>
          ELSE <<>>)
         \o resourceDirs(Tail(rs))

\* extfiles: one (source, extensions/<basename>) pair per extension directory
RECURSIVE extfiles(_)
extfiles(xs) ==
    IF xs = <<>> THEN <<>>
    ELSE LET x == join(<<"extensions">>, xs[1])
         IN  (IF isdir(x) THEN << <<x, join(<<"extensions">>, <<Last(x)>>)>> >> ELSE <<>>)
             \o extfiles(Tail(xs))

\* dirs.append((themepath/files, '.')) for each theme of the chain
themeDirs(tps) == [k \in 1..Len(tps) |-> <<join(tps[k], <<"files">>), <<".">>>>]

\* allDirs with the caller's dirs put last instead of first
allDirsLast(dirs) ==
    resourceDirs(exam.resources) \o extfiles(exam.extensions) \o themeDirs(themepaths) \o dirs

\* the list dirs once collectFiles has extended it
allDirs(dirs) ==
    dirs \o resourceDirs(exam.resources) \o extfiles(exam.extensions) \o themeDirs(themepaths)

RECURSIVE putNames(_, _, _, _)
putNames(tbl, xsrc, xdst, names) ==
    IF names = <<>> THEN tbl
    ELSE putNames(IF realFile(names[1])
                  THEN setitem(tbl, join(xdst, <<names[1]>>), OnDisk(join(xsrc, <<names[1]>>)))
                  ELSE tbl,
                  xsrc, xdst, Tail(names))

RECURSIVE putWalk(_, _, _, _)
putWalk(tbl, w, src, dst) ==
    IF w = <<>> THEN tbl
    ELSE putWalk(putNames(tbl, w[1].dir, replace(w[1].dir, src, dst), w[1].names),
                 Tail(w), src, dst)

RECURSIVE putDirs(_, _)
putDirs(tbl, dirs) ==
    IF dirs = <<>> THEN tbl
    ELSE putDirs(putWalk(tbl, walk(dirs[1][1]), dirs[1][1], dirs[1][2]), Tail(dirs))

\* files[resources/name] = path for each resource that is not a directory
RECURSIVE putFileResources(_, _)
putFileResources(tbl, rs) ==
    IF rs = <<>> THEN tbl
    ELSE putFileResources(IF ~isdir(rs[1][2])
                          THEN setitem(tbl, join(<<"resources">>, rs[1][1]), OnDisk(rs[1][2]))
                          ELSE tbl,
                          Tail(rs))

collectFiles(dirs) ==
    putFileResources(putDirs(<<>>, allDirs(dirs)), exam.resources)

----------------------------------------------------------------------------
(* run(): resolution of the theme chain *)

NoError == [kind |-> "none", path |-> <<>>]

Raise(kind, path) == [kind |-> kind, path |-> path]

\* get_theme_path does not raise
ThemeFound(theme) == exists(theme) \/ exists(join(<<"themes">>, theme))

get_theme_path(theme) ==
    IF exists(theme) THEN theme ELSE join(<<"themes">>, theme)

\* reverse that leaves the list as it is
reverseNot(s) == s

reverse(s) == [k \in 1..Len(s) |-> s[Len(s) + 1 - k]]

\* resolveOne that appends only the themes the chain does not hold yet
resolveOneNew(tps, i) ==
    LET theme == get_theme_path(tps[i])
        inherit_file == join(theme, <<"inherit.txt">>)
        resolved == [tps EXCEPT ![i] = theme]
        seen(t) == \E k \in 1..Len(tps) : tps[k] = t \/ (ThemeFound(t) /\ tps[k] = get_theme_path(t))
    IN  IF exists(inherit_file)
        THEN resolved \o SelectSeq(fs.inherit[theme], LAMBDA t : ~seen(t))
        ELSE resolved

\* what one pass of the loop body leaves in options.themepaths
resolveOne(tps, i) ==
    LET theme == get_theme_path(tps[i])
        inherit_file == join(theme, <<"inherit.txt">>)
        resolved == [tps EXCEPT ![i] = theme]
    IN  IF exists(inherit_file) THEN resolved \o fs.inherit[theme] ELSE resolved

\* one pass of  for theme,i in zip(options.themepaths,count())
ResolveStep ==
    /\ pc = "resolve"
    /\ ti <= Len(themepaths)
    /\ IF ThemeFound(themepaths[ti])
       THEN /\ Len(resolveOne(themepaths, ti)) <= MaxChain
            /\ themepaths' = resolveOne(themepaths, ti)
            /\ ti' = ti + 1
            /\ UNCHANGED <<pc, err>>
       ELSE /\ pc' = "failed"
            /\ err' = Raise("ThemeNotFound", themepaths[ti])
            /\ UNCHANGED <<themepaths, ti>>
    /\ UNCHANGED <<fs, exam, options, files, manifest, out, wi, last>>

\* the loop ran off the end of the list: options.themepaths.reverse()
ResolveDone ==
    /\ pc = "resolve"
    /\ ti > Len(themepaths)
    /\ themepaths' = reverse(themepaths)
    /\ pc' = "makeExam"
    /\ UNCHANGED <<fs, exam, options, ti, files, manifest, out, wi, last, err>>

----------------------------------------------------------------------------
(* makeExam *)

settings_js == <<".", "settings.js">>
locale_js == <<".", "locale.js">>
imsmanifest_xml == <<".", "imsmanifest.xml">>
styles_css == <<".", "styles.css">>
scripts_js == <<".", "scripts.js">>
numbas_loader_path == <<"runtime", "scripts", "numbas.js">>

\* the texts generated during the build
xmls == << <<"#xmls">> >>
locale_text == << <<"#locale_js">> >>
manifest_string == << <<"#manifest_string">> >>
minified(path) == << <<"#minified">> \o path >>

\* files = collectFiles(options)
Collect ==
    /\ pc = "makeExam"
    /\ files' = collectFiles(<< <<<<"runtime">>, <<".">>>> >>)
    /\ pc' = "inject"
    /\ UNCHANGED <<fs, exam, options, themepaths, ti, manifest, out, wi, last, err>>

\* injected that leaves out locale.js
injectedNoLocale(tbl) == setitem(tbl, settings_js, StringIO(xmls))

injected(tbl) ==
    setitem(setitem(tbl, settings_js, StringIO(xmls)), locale_js, StringIO(locale_text))

\* settings.js and locale.js
Inject ==
    /\ pc = "inject"
    /\ files' = injected(files)
    /\ pc' = IF options.scorm THEN "scorm" ELSE "styles"
    /\ UNCHANGED <<fs, exam, options, themepaths, ti, manifest, out, wi, last, err>>

\* resource_files, one file element per item
resource_files(tbl) == [k \in 1..Len(tbl) |-> to_relative_url(tbl[k].dst)]

scormed(tbl) ==
    setitem(update(tbl, collectFiles(<< <<<<"scormfiles">>, <<".">>>> >>)),
            imsmanifest_xml, StringIO(manifest_string))

\* if options.scorm
Scorm ==
    /\ pc = "scorm"
    /\ manifest' = resource_files(files)
    /\ files' = scormed(files)
    /\ pc' = "styles"
    /\ UNCHANGED <<fs, exam, options, themepaths, ti, out, wi, last, err>>

\* the items of the table whose destination has extension e
withExt(tbl, e) == SelectSeq(tbl, LAMBDA it : ext(it.dst) = e)

\* withoutExt that deletes nothing
withoutExtKeepsAll(tbl, e) == tbl

withoutExt(tbl, e) == SelectSeq(tbl, LAMBDA it : ext(it.dst) /= e)

srcsOf(items) == [k \in 1..Len(items) |-> items[k].src]

mergedStyles(tbl) ==
    setitem(withoutExt(tbl, ".css"), styles_css,
            StringIO(joinlines(srcsOf(withExt(tbl, ".css")))))

Styles ==
    /\ pc = "styles"
    /\ files' = mergedStyles(files)
    /\ pc' = "scripts"
    /\ UNCHANGED <<fs, exam, options, themepaths, ti, manifest, out, wi, last, err>>

\* list.remove(x): drops the first item equal to x
RECURSIVE remove(_, _)
remove(l, x) ==
    IF l = <<>> THEN <<>>
    ELSE IF l[1] = x THEN Tail(l) ELSE <<l[1]>> \o remove(Tail(l), x)

contains(l, x) == \E k \in 1..Len(l) : l[k] = x

\* loaderFirst with the loader put back at the end of the list
loaderLast(javascripts) ==
    remove(javascripts, OnDisk(numbas_loader_path)) \o <<OnDisk(numbas_loader_path)>>

\* javascripts.remove(numbas_loader_path); javascripts.insert(0,numbas_loader_path)
loaderFirst(javascripts) ==
    <<OnDisk(numbas_loader_path)>> \o remove(javascripts, OnDisk(numbas_loader_path))

mergedScripts(tbl) ==
    setitem(withoutExt(tbl, ".js"), scripts_js,
            StringIO(joinlines(loaderFirst(srcsOf(withExt(tbl, ".js"))))))

Scripts ==
    /\ pc = "scripts"
    /\ IF contains(srcsOf(withExt(files, ".js")), OnDisk(numbas_loader_path))
       THEN /\ files' = mergedScripts(files)
            /\ pc' = "minify"
            /\ err' = err
       ELSE /\ files' = withoutExt(files, ".js")
            /\ pc' = "failed"
            /\ err' = Raise("ValueError", numbas_loader_path)
    /\ UNCHANGED <<fs, exam, options, themepaths, ti, manifest, out, wi, last>>

\* p.poll() of the configured minifier
exitcode(cmd) == IF cmd = "min1" THEN 1 ELSE 0

\* the items the minifier is run on
minifiable(tbl) == SelectSeq(tbl, LAMBDA it : isstr(it.src) /\ ext(it.dst) = ".js")

minifyAll(tbl) ==
    [k \in 1..Len(tbl) |->
        IF isstr(tbl[k].src) /\ ext(tbl[k].dst) = ".js"
        THEN [dst |-> tbl[k].dst, src |-> StringIO(minified(tbl[k].src.path))]
        ELSE tbl[k]]

\* if options.minify
Minify ==
    /\ pc = "minify"
    /\ IF options.minify /= "" /\ minifiable(files) /= <<>> /\ exitcode(options.minify) /= 0
       THEN /\ pc' = "failed"
            /\ err' = Raise("MinifyFailed", minifiable(files)[1].src.path)
            /\ files' = files
       ELSE /\ pc' = "write"
            /\ err' = err
            /\ files' = IF options.minify /= "" THEN minifyAll(files) ELSE files
    /\ UNCHANGED <<fs, exam, options, themepaths, ti, manifest, out, wi, last>>

----------------------------------------------------------------------------
(* compileToDir *)

\* the time a write of this build leaves on a destination
Now == MaxTime

\* the file of the output directory that destination dst names
location(dst) == cleanpath(dst)

\* os.path.exists(dst): written by this build, or left by a previous one
dstExists(o, loc) == loc \in DOMAIN o.dir \/ o.prev

\* os.path.getmtime(dst)
dstMtime(o, loc) == IF loc \in DOMAIN o.dir THEN o.dir[loc].mtime ELSE PrevTime

written(o, loc, text) ==
    [o EXCEPT !.dir = (loc :> [mtime |-> Now, text |-> text]) @@ o.dir]

\* shouldCopy that also copies on equal timestamps
shouldCopyOnEqual(action, dstexists, srcmtime, dstmtime) ==
    action = "clean" \/ ~dstexists \/ srcmtime >= dstmtime

\* the test guarding shutil.copyfile
shouldCopy(action, dstexists, srcmtime, dstmtime) ==
    action = "clean" \/ ~dstexists \/ srcmtime > dstmtime

NoDecision ==
    [dst |-> <<>>, isstr |-> FALSE, dstexists |-> FALSE, srcmtime |-> 0, dstmtime |-> 0,
     wrote |-> FALSE]

\* rmtree for a clean build, then mkdir
DirPrepare ==
    /\ pc = "write"
    /\ ~options.zip
    /\ out' = IF options.action = "clean" THEN [out EXCEPT !.prev = FALSE, !.dir = <<>>] ELSE out
    /\ wi' = 1
    /\ pc' = "dir"
    /\ UNCHANGED <<fs, exam, options, themepaths, ti, files, manifest, last, err>>

\* one pass of  for (dst,src) in files.items()
DirEntry ==
    /\ pc = "dir"
    /\ wi <= Len(files)
    /\ LET dst == files[wi].dst
           src == files[wi].src
           loc == location(dst)
       IN  IF isstr(src)
           THEN \E srcmtime \in 0..MaxTime :
                  LET copy == shouldCopy(options.action, dstExists(out, loc), srcmtime,
                                         dstMtime(out, loc))
                  IN  /\ out' = IF copy THEN written(out, loc, read(src)) ELSE out
                      /\ last' = [dst |-> dst, isstr |-> TRUE,
                                  dstexists |-> dstExists(out, loc), srcmtime |-> srcmtime,
                                  dstmtime |-> dstMtime(out, loc), wrote |-> copy]
           ELSE /\ out' = written(out, loc, read(src))
                /\ last' = [dst |-> dst, isstr |-> FALSE,
                            dstexists |-> dstExists(out, loc), srcmtime |-> 0,
                            dstmtime |-> dstMtime(out, loc), wrote |-> TRUE]
    /\ wi' = wi + 1
    /\ UNCHANGED <<fs, exam, options, pc, themepaths, ti, files, manifest, err>>

DirDone ==
    /\ pc = "dir"
    /\ wi > Len(files)
    /\ pc' = "done"
    /\ UNCHANGED <<fs, exam, options, themepaths, ti, files, manifest, out, wi, last, err>>

----------------------------------------------------------------------------
(* compileToZip *)

\* f = ZipFile(options.output,'w')
ZipOpen ==
    /\ pc = "write"
    /\ options.zip
    /\ out' = [out EXCEPT !.opened = TRUE, !.archive = <<>>]
    /\ wi' = 1
    /\ pc' = "zip"
    /\ UNCHANGED <<fs, exam, options, themepaths, ti, files, manifest, last, err>>

\* f.writestr(ZipInfo(cleanpath(dst)), content)
ZipEntry ==
    /\ pc = "zip"
    /\ wi <= Len(files)
    /\ out' = [out EXCEPT !.archive =
                  Append(@, [name |-> cleanpath(files[wi].dst), text |-> read(files[wi].src)])]
    /\ wi' = wi + 1
    /\ UNCHANGED <<fs, exam, options, pc, themepaths, ti, files, manifest, last, err>>

\* f.close()
ZipDone ==
    /\ pc = "zip"
    /\ wi > Len(files)
    /\ pc' = "done"
    /\ UNCHANGED <<fs, exam, options, themepaths, ti, files, manifest, out, wi, last, err>>

----------------------------------------------------------------------------
(* Initial states: the disk, the exam and the command line *)

ThemeNames == {"R", "A", "B"}

ThemeDir(name, at) == IF at = "cwd" THEN <<name>> ELSE <<"themes", name>>

Under(d, T) == {join(d, p) : p \in T}

StaticDisk ==
    { <<"extensions", "e1", "e.js">>, <<"r1", "pic.png">>, <<"extra.js">>,
      <<"scormfiles", "api.js">>, <<"scormfiles", "imsmanifest.xml">> }

RuntimeFull ==
    { <<"runtime", "scripts", "numbas.js">>, <<"runtime", "base.css">>,
      <<"runtime", "index.html~">>, <<"runtime", "extra.js">>,
      <<"runtime", "resources", "r1", "pic.png">> }
RuntimePlain == { <<"runtime", "scripts", "numbas.js">>, <<"runtime", "index.html">> }
RuntimeNoLoader == { <<"runtime", "base.css">> }

TreeIdx == { <<"files", "index.html">> }
TreeCss == { <<"files", "index.html">>, <<"files", "base.css">>, <<"files", "styles.css">> }
TreeLoader == { <<"files", "scripts", "numbas.js">> }
TreeRes ==
    { <<"files", "index.html">>, <<"files", "scripts.js">>,
      <<"files", "resources", "r1", "pic.png">> }
TreeB == { <<"files", "b.png">> }

\* the disk with runtime tree rt, theme n at at[n] holding trees[n] and an
\* inherit.txt listing g[n] (none when g[n] is empty)
MkFs(rt, at, trees, g, rev) ==
    LET present == {n \in ThemeNames : at[n] /= "none"}
        dirOf(n) == ThemeDir(n, at[n])
        nameOf(d) == CHOOSE n \in present : dirOf(n) = d
    IN  [ disk |-> StaticDisk \cup rt
                   \cup UNION {Under(dirOf(n), trees[n]) : n \in present}
                   \cup {join(dirOf(n), <<"inherit.txt">>) : n \in {m \in present : g[m] /= <<>>}},
          dirs |-> {dirOf(n) : n \in present},
          inherit |-> [d \in {dirOf(n) : n \in present} |->
                          [k \in 1..Len(g[nameOf(d)]) |-> <<g[nameOf(d)][k]>>]],
          rev |-> rev ]

Graph(r, a, b) == [n \in ThemeNames |-> CASE n = "R" -> r [] n = "A" -> a [] OTHER -> b]

ExamNone == [resources |-> <<>>, extensions |-> <<>>]
ExamDir == [resources |-> << <<<<"r1">>, <<"r1">>>> >>, extensions |-> << <<"e1">> >>]
ExamFile == [resources |-> << <<<<"extra.js">>, <<"extra.js">>>> >>, extensions |-> << <<"e2">> >>]

\* zip, action and whether a previous build left its output
Modes ==
    { [zip |-> TRUE, action |-> "update", prev |-> FALSE],
      [zip |-> FALSE, action |-> "clean", prev |-> TRUE],
      [zip |-> FALSE, action |-> "update", prev |-> TRUE],
      [zip |-> FALSE, action |-> "update", prev |-> FALSE] }

Start(f, e, mode, scorm, minify) ==
    /\ fs = f
    /\ exam = e
    /\ options = [theme |-> <<"R">>, scorm |-> scorm, zip |-> mode.zip,
                  action |-> mode.action, minify |-> minify]
    /\ pc = "resolve"
    /\ themepaths = << <<"R">> >>
    /\ ti = 1
    /\ files = <<>>
    /\ manifest = <<>>
    /\ out = [opened |-> FALSE, archive |-> <<>>, prev |-> mode.prev, dir |-> <<>>]
    /\ wi = 1
    /\ last = NoDecision
    /\ err = NoError

\* builds over varied file trees, with a few inheritance graphs
Init ==
    \E rt \in {RuntimeFull, RuntimePlain, RuntimeNoLoader},
       atR \in {"lib", "cwd"},
       treeR \in {TreeIdx, TreeCss, TreeLoader},
       treeA \in {TreeIdx, TreeRes},
       g \in { Graph(<<"A", "B">>, <<>>, <<>>), Graph(<<"A">>, <<"B">>, <<>>),
               Graph(<<>>, <<>>, <<>>) },
       rev \in BOOLEAN,
       e \in {ExamNone, ExamDir, ExamFile},
       mode \in Modes,
       scorm \in BOOLEAN,
       minify \in {"", "min1"} :
         Start(MkFs(rt, Graph(atR, "lib", "lib"), Graph(treeR, treeA, TreeB), g, rev),
               e, mode, scorm, minify)

\* sequences over S without repetition, of length at most n
RECURSIVE Lists(_, _)
Lists(S, n) ==
    IF n = 0 THEN {<<>>}
    ELSE Lists(S, n - 1) \cup {Append(l, x) : l \in Lists(S, n - 1), x \in S}

NoRepeat(l) == \A j, k \in 1..Len(l) : j /= k => l[j] /= l[k]

InheritLists == {l \in Lists(ThemeNames, MaxInherit) : NoRepeat(l)}

\* where the themes are, with the kind of build run there
ThemeSetups ==
    { [at |-> Graph("lib", "cwd", "lib"),
       mode |-> [zip |-> TRUE, action |-> "update", prev |-> FALSE]],
      [at |-> Graph("cwd", "lib", "none"),
       mode |-> [zip |-> FALSE, action |-> "update", prev |-> TRUE]] }

\* builds over every inheritance graph, with fixed file trees
ThemeInit ==
    \E su \in ThemeSetups,
       r \in InheritLists, a \in InheritLists, b \in InheritLists :
         Start(MkFs(RuntimePlain, su.at, Graph(TreeCss, TreeIdx, TreeB), Graph(r, a, b), FALSE),
               ExamNone, su.mode, su.mode.zip, IF su.mode.zip THEN "min0" ELSE "")

Next ==
    \/ ResolveStep
    \/ ResolveDone
    \/ Collect
    \/ Inject
    \/ Scorm
    \/ Styles
    \/ Scripts
    \/ Minify
    \/ DirPrepare
    \/ DirEntry
    \/ DirDone
    \/ ZipOpen
    \/ ZipEntry
    \/ ZipDone

Spec == Init /\ [][Next]_vars

\* the program is sequential: the resolution loop takes its next step
\* whenever it has one
ThemeSpec ==
    ThemeInit /\ [][Next]_vars /\ WF_vars(ResolveStep) /\ WF_vars(ResolveDone)

----------------------------------------------------------------------------
(* Overlays, as the claims about collectFiles speak of them *)

\* the entries an overlay (source root, destination root) contributes, whatever
\* the order of the walk: one per real file below the source root
OverlayEntries(ov) ==
    {[dst |-> join(ov[2], SubSeq(q, Len(ov[1]) + 1, Len(q))), src |-> q] :
        q \in {p \in fs.disk : IsPrefix(ov[1], p) /\ Len(p) > Len(ov[1]) /\ realFile(Last(p))}}

RuntimeOverlay == << <<"runtime">>, <<".">> >>

ExtensionOverlays ==
    LET declared == SelectSeq(exam.extensions, LAMBDA x : isdir(<<"extensions">> \o x))
    IN  [k \in 1..Len(declared) |->
            << <<"extensions">> \o declared[k], <<"extensions">> \o declared[k] >>]

ThemeOverlays ==
    [k \in 1..Len(themepaths) |-> << themepaths[k] \o <<"files">>, <<".">> >>]

ResourceOverlays ==
    LET declared == SelectSeq(exam.resources, LAMBDA r : isdir(r[2]))
    IN  [k \in 1..Len(declared) |-> << declared[k][2], <<"resources">> \o declared[k][1] >>]

FileResources == SelectSeq(exam.resources, LAMBDA r : ~isdir(r[2]))

\* the priority order the claim gives
ClaimedOrder == <<RuntimeOverlay>> \o ExtensionOverlays \o ThemeOverlays \o ResourceOverlays

\* the order in which collectFiles applies the overlays
AppliedOrder == <<RuntimeOverlay>> \o ResourceOverlays \o ExtensionOverlays \o ThemeOverlays

Contributors(order, key) ==
    {i \in 1..Len(order) : \E e \in OverlayEntries(order[i]) : e.dst = key}

Max(S) == CHOOSE m \in S : \A n \in S : n <= m

\* the source left at key: the last file-valued resource of that key, else the
\* entry of the last overlay that has the key
WinnerSrc(key) ==
    LET fr == {k \in 1..Len(FileResources) : <<"resources">> \o FileResources[k][1] = key}
    IN  IF fr /= {} THEN FileResources[Max(fr)][2]
        ELSE (CHOOSE e \in OverlayEntries(AppliedOrder[Max(Contributors(AppliedOrder, key))]) :
                  e.dst = key).src

AllKeys ==
    UNION {{e.dst : e \in OverlayEntries(AppliedOrder[i])} : i \in 1..Len(AppliedOrder)}
    \cup {<<"resources">> \o FileResources[k][1] : k \in 1..Len(FileResources)}

\* the item left for the output location of key: the last item of the table,
\* in iteration order, whose key names that location (the writers take the
\* items in that order, a later write replacing an earlier one)
LeftAt(tbl, key) ==
    tbl[Max({k \in 1..Len(tbl) : cleanpath(tbl[k].dst) = cleanpath(key)})]

----------------------------------------------------------------------------
(* Aggregation *)

Writing == {"write", "dir", "zip", "done"}

ScriptItems(tbl) == SelectSeq(tbl, LAMBDA it : ext(it.dst) = ".js")

StyleItems(tbl) == SelectSeq(tbl, LAMBDA it : ext(it.dst) = ".css")

NonAssets(tbl) == SelectSeq(tbl, LAMBDA it : ext(it.dst) \notin {".css", ".js"})

\* the places of the bootstrap loader among the script items
LoaderAt(tbl) ==
    {k \in 1..Len(ScriptItems(tbl)) : ScriptItems(tbl)[k].src = OnDisk(numbas_loader_path)}

Min(S) == CHOOSE m \in S : \A n \in S : m <= n

\* the script sources other than the loader, in table order
OtherScripts(tbl) ==
    LET its == ScriptItems(tbl)
        first == Min(LoaderAt(tbl))
    IN  [k \in 1..(Len(its) - 1) |-> IF k < first THEN its[k].src ELSE its[k + 1].src]

C3_AssetCollapse ==
    [][/\ pc = "styles" =>
            /\ NonAssets(files') = NonAssets(files)
            /\ Len(StyleItems(files')) = 1
            /\ StyleItems(files')[1].dst = styles_css
       /\ (pc = "scripts" /\ pc' = "minify") =>
            /\ NonAssets(files') = NonAssets(files)
            /\ Len(StyleItems(files')) = 1
            /\ StyleItems(files')[1].dst = styles_css
            /\ Len(ScriptItems(files')) = 1
            /\ ScriptItems(files')[1].dst = scripts_js]_vars

\* aggregation is over, of a table that held a file at styles.css and one
\* at scripts.js
C3_Witness ==
    /\ pc = "minify"
    /\ \E k \in 1..Len(getitem(files, styles_css).text) :
          Last(getitem(files, styles_css).text[k]) = "styles.css"
    /\ \E k \in 1..Len(getitem(files, scripts_js).text) :
          Last(getitem(files, scripts_js).text[k]) = "scripts.js"
    /\ NonAssets(files) /= <<>>

----------------------------------------------------------------------------
(* Theme chain *)

\* the requested theme declares A then B, which declare nothing
C4_Case ==
    /\ ThemeFound(<<"R">>) /\ ThemeFound(<<"A">>) /\ ThemeFound(<<"B">>)
    /\ exists(join(get_theme_path(<<"R">>), <<"inherit.txt">>))
    /\ fs.inherit[get_theme_path(<<"R">>)] = << <<"A">>, <<"B">> >>
    /\ ~exists(join(get_theme_path(<<"A">>), <<"inherit.txt">>))
    /\ ~exists(join(get_theme_path(<<"B">>), <<"inherit.txt">>))

\* C4 as stated: the resolved chain is [A, B, requested].
C4_DeclarationOrder ==
    (C4_Case /\ pc /= "resolve") =>
        themepaths = << get_theme_path(<<"A">>), get_theme_path(<<"B">>),
                        get_theme_path(<<"R">>) >>

\* C4 as amended: the resolved chain is [B, A, requested], the ancestors in
\* the reverse of their declaration order and the requested theme last, and a
\* file of both the requested theme and A is taken from the requested theme.
C4_ReversedOrder ==
    (C4_Case /\ pc /= "resolve") =>
        /\ themepaths = << get_theme_path(<<"B">>), get_theme_path(<<"A">>),
                           get_theme_path(<<"R">>) >>
        /\ pc = "inject" =>
              /\ isfile(join(get_theme_path(<<"A">>), <<"files", "index.html">>))
              /\ getitem(files, <<".", "index.html">>) =
                     OnDisk(join(get_theme_path(<<"R">>), <<"files", "index.html">>))

\* the chain of a theme declaring A then B is resolved and the table collected
C4_Witness == C4_Case /\ pc = "inject"

\* the themes declared by the theme named n
Parents(n) ==
    IF ThemeFound(<<n>>) /\ exists(join(get_theme_path(<<n>>), <<"inherit.txt">>))
    THEN {fs.inherit[get_theme_path(<<n>>)][k][1] :
             k \in 1..Len(fs.inherit[get_theme_path(<<n>>)])}
    ELSE {}

RECURSIVE Closure(_, _)
Closure(S, n) ==
    IF n = 0 THEN S ELSE Closure(S \cup UNION {Parents(m) : m \in S}, n - 1)

\* the themes reached from the set S of themes, S included
Reach(S) == Closure(S, Cardinality(ThemeNames))

\* every theme reached from the requested one is found by get_theme_path
Resolvable == \A n \in Reach({"R"}) : ThemeFound(<<n>>)

\* a cycle of the inheritance graph is reached from the requested theme
Cyclic == \E n \in Reach({"R"}) : n \in Reach(Parents(n))

\* C10: over the inheritance graphs whose themes all exist, the resolution
\* loop ends and makeExam is reached when no cycle is reached from the
\* requested theme, also when a theme is inherited along several paths; when a
\* cycle is reached the loop never ends: there is always a theme of the chain
\* still to visit.
C10_Termination ==
    /\ (Resolvable /\ ~Cyclic) => <>(pc = "makeExam")
    /\ [](Resolvable /\ Cyclic => pc = "resolve" /\ ti <= Len(themepaths))

\* a cycle is being followed: the chain already holds more entries than
\* there are themes
C10_Witness ==
    /\ Resolvable
    /\ Cyclic
    /\ pc = "resolve"
    /\ Len(themepaths) > Cardinality(ThemeNames)

----------------------------------------------------------------------------
(* Minifier, manifest, writers *)

\* C5 as stated: with a minifier that always exits non-zero, the build aborts
\* before the writer is reached and nothing is written.
C5_MinifierAborts ==
    (options.minify /= "" /\ exitcode(options.minify) /= 0) =>
        /\ pc \notin Writing
        /\ ~out.opened
        /\ out.dir = <<>>

\* C6 as stated: in a SCORM build the hrefs of the manifest's file elements
\* are exactly the normalized destination paths of the table the writer gets.
C6_ManifestMatchesTable ==
    (options.scorm /\ pc \in Writing) =>
        {manifest[k] : k \in 1..Len(manifest)} =
            {to_relative_url(files[k].dst) : k \in 1..Len(files)}

\* C7: compileToDir copies a file-backed item exactly when the build is a
\* clean build, or the destination does not exist, or the source's
\* modification time is strictly greater than the destination's; an item held
\* in memory is always written.
C7_IncrementalCopy ==
    [][(pc = "dir" /\ wi' = wi + 1) =>
          LET it == files[wi]
              loc == cleanpath(it.dst)
              existed == loc \in DOMAIN out.dir \/ out.prev
              dstmtime == IF loc \in DOMAIN out.dir THEN out.dir[loc].mtime ELSE PrevTime
              must == IF it.src.mem THEN TRUE
                      ELSE \/ options.action = "clean"
                           \/ ~existed
                           \/ last'.srcmtime > dstmtime
          IN  /\ last'.dst = it.dst
              /\ last'.wrote = must
              /\ IF must
                 THEN /\ loc \in DOMAIN out'.dir
                      /\ out'.dir[loc] = [mtime |-> Now, text |-> read(it.src)]
                 ELSE out' = out]_vars

\* a build that is not clean met a destination as old as its source and
\* left it alone
C7_Witness ==
    /\ pc = "dir"
    /\ options.action = "update"
    /\ last.isstr
    /\ last.dstexists
    /\ last.srcmtime = last.dstmtime
    /\ ~last.wrote

\* C8 as stated: the table of a build without SCORM reaches the writer with
\* scripts.js and styles.css, a settings-script item and a locale-script item
\* of their own, and no manifest item.
C8_OwnEntries ==
    (~options.scorm /\ pc \in Writing) =>
        /\ {scripts_js, styles_css} \subseteq keys(files)
        /\ \E k \in 1..Len(files) : files[k].src = StringIO(xmls)
        /\ \E k \in 1..Len(files) : files[k].src = StringIO(locale_text)
        /\ \A k \in 1..Len(files) : files[k].src /= StringIO(manifest_string)

\* C8 as amended: the table of a build without SCORM reaches the writer with
\* scripts.js and styles.css and no generated manifest item; the settings
\* script and the locale script are no items of their own: their texts are
\* part of scripts.js, after the bootstrap loader.
C8_MergedEntries ==
    (~options.scorm /\ pc \in Writing) =>
        /\ {scripts_js, styles_css} \subseteq keys(files)
        /\ settings_js \notin keys(files)
        /\ locale_js \notin keys(files)
        /\ \A k \in 1..Len(files) :
              files[k].src \notin {StringIO(xmls), StringIO(locale_text), StringIO(manifest_string)}
        /\ \E j, k \in 2..Len(getitem(files, scripts_js).text) :
              /\ getitem(files, scripts_js).text[j] = xmls[1]
              /\ getitem(files, scripts_js).text[k] = locale_text[1]

\* a build without SCORM is written, the settings text inside scripts.js
C8_Witness ==
    /\ ~options.scorm
    /\ pc = "done"
    /\ \E j \in 2..Len(getitem(files, scripts_js).text) :
          getitem(files, scripts_js).text[j] = xmls[1]

\* C9 as stated: no two items of the table the writer gets name the same
\* output location: their cleanpath names are pairwise distinct.
C9_UniqueLocations ==
    pc \in Writing =>
        \A j, k \in 1..Len(files) :
            j /= k => cleanpath(files[j].dst) /= cleanpath(files[k].dst)

=============================================================================
